---- MODULE Spec2Model ----
(***************************************************************************)
(* A model of wrapper.py, the Python client of the ProvStore REST API.     *)
(* The client (class Api) is translated from the source; the remote store  *)
(* it talks to is modelled from the documented HTTP surface.               *)
(***************************************************************************)
EXTENDS Integers, Sequences, FiniteSets, TLC

VARIABLES api_location, api_username, api_key,  \* the Api object's fields
          store, last_id,                       \* the remote store
          pc,                                   \* the caller: "idle", or "returned" from a call
          call, sent, received, result,         \* the call: arguments, requests, response, outcome
          deletedSince,                         \* ids deleted since the last successful submit
          submitted                             \* the document submitted, of each stored id

vars == <<api_location, api_username, api_key, store, last_id,
          pc, call, sent, received, result, deletedSince, submitted>>

(***************************************************************************)
(* Bounds.                                                                 *)
(***************************************************************************)
MaxDocs == 2      \* documents ever submitted
MaxLive == 1      \* documents stored at once

(***************************************************************************)
(* Python values: every value is [t |-> type, v |-> payload].              *)
(***************************************************************************)
None == [t |-> "None", v |-> "None"]
PyBool(b) == [t |-> "bool", v |-> b]
PyInt(n) == [t |-> "int", v |-> n]
PyStr(s) == [t |-> "str", v |-> s]
PyList(s) == [t |-> "list", v |-> s]
PyDict(f) == [t |-> "dict", v |-> f]
\* a prov.model.ProvBundle: its entities, its activities, its named sub-bundles
ProvBundle(e, a, b) == [t |-> "ProvBundle", v |-> [entity |-> e, activity |-> a, bundle |-> b]]

\* object(): a value of no type json.dumps knows
Opaque == [t |-> "object", v |-> "object"]

EmptyDict == PyDict(<<>>)
EmptyList == PyList(<<>>)

\* bool(o), as the if statements of the source test their operands
Truthy(o) ==
    CASE o.t = "None" -> FALSE
      [] o.t = "bool" -> o.v
      [] o.t = "int" -> o.v # 0
      [] o.t = "str" -> o.v # ""
      [] o.t = "list" -> Len(o.v) # 0
      [] o.t = "dict" -> DOMAIN o.v # {}
      [] OTHER -> TRUE

\* "%s" % o
Str(o) ==
    CASE o.t = "None" -> "None"
      [] o.t = "str" -> o.v
      [] o.t = "int" -> ToString(o.v)
      [] o.t = "bool" -> IF o.v THEN "True" ELSE "False"
      [] OTHER -> "<object>"

(***************************************************************************)
(* Outcomes of a call.                                                     *)
(***************************************************************************)
Return(v) == [kind |-> "return", exc |-> "", code |-> 0, v |-> v]
Raise(e, c) == [kind |-> "raise", exc |-> e, code |-> c, v |-> None]

(***************************************************************************)
(* The inputs.                                                             *)
(***************************************************************************)
API_LOCATION == "https://provenance.ecs.soton.ac.uk/store/api/v0/"
CustomLocation == "http://localhost/api/"
Locations == {None, PyStr(CustomLocation)}
Usernames == {None, PyStr(""), PyStr("user")}
Keys == {None, PyStr(""), PyStr("key")}

EntityIds == {"e1"}
ActivityIds == {"a1"}
Bundles == {ProvBundle(e, a, <<>>) : e \in SUBSET EntityIds, a \in SUBSET ActivityIds}
Junk == PyStr("junk")     \* a payload that is no document
Identifiers == {"d1", "d2"}
BundleIdentifiers == {"b1"}
BundleInputs == {ProvBundle({"e1"}, {}, <<>>), Junk, Opaque}
DocIds == 1 .. (MaxDocs + 1)
Formats == {None, PyStr("json"), PyStr("provn")}
Views == {None, PyStr("data"), PyStr("process"), PyStr("responsibility"), PyStr("other")}

(***************************************************************************)
(* JSON: json.dumps with cls=RequestDataSerializer, and json.loads.        *)
(***************************************************************************)
\* ProvBundle._encode_JSON_container: one member per record type that has records
encode_records(rs) ==
    PyDict([k \in {k \in {"entity", "activity"} : rs[k] # {}} |->
              PyDict([r \in rs[k] |-> EmptyDict])])
WithBundles(top, bs) ==
    IF DOMAIN bs = {} THEN top
    ELSE PyDict([k \in DOMAIN top.v \cup {"bundle"} |->
                   IF k = "bundle" THEN PyDict(bs) ELSE top.v[k]])
encode_JSON_container(o) ==
    WithBundles(encode_records(o.v),
                [b \in DOMAIN o.v.bundle |-> encode_records(o.v.bundle[b])])

\* RequestDataSerializer.default; json.JSONEncoder.default raises TypeError
RequestDataSerializer_default(o) ==
    IF o.t = "ProvBundle" THEN Return(encode_JSON_container(o)) ELSE Raise("TypeError", 0)

\* whether json.dumps(o, cls=RequestDataSerializer) raises
RECURSIVE dumps_raises(_)
dumps_raises(o) ==
    CASE o.t \in {"None", "bool", "int", "str"} -> FALSE
      [] o.t = "list" -> \E i \in 1 .. Len(o.v) : dumps_raises(o.v[i])
      [] o.t = "dict" -> \E k \in DOMAIN o.v : dumps_raises(o.v[k])
      [] OTHER -> IF RequestDataSerializer_default(o).kind = "raise" THEN TRUE
                  ELSE dumps_raises(RequestDataSerializer_default(o).v)

\* the order in which a mapping's members are written
KeyOrder == <<"content", "public", "rec_id", "id", "entity", "activity", "bundle",
              "e1", "a1", "b1">>
Members(f) == SelectSeq(KeyOrder, LAMBDA k : k \in DOMAIN f)

\* the text json.dumps(o, cls=RequestDataSerializer) returns, when it does not raise
RECURSIVE json_dumps(_), dumps_members(_, _)
json_dumps(o) ==
    CASE o.t = "None" -> "null"
      [] o.t = "bool" -> IF o.v THEN "true" ELSE "false"
      [] o.t = "int" -> ToString(o.v)
      [] o.t = "str" -> "\"" \o o.v \o "\""
      [] o.t = "list" -> "[]"
      [] o.t = "dict" -> "{" \o dumps_members(o.v, Members(o.v)) \o "}"
      [] OTHER -> json_dumps(RequestDataSerializer_default(o).v)
dumps_members(f, ks) ==
    IF ks = <<>> THEN ""
    ELSE LET m == "\"" \o Head(ks) \o "\": " \o json_dumps(f[Head(ks)])
         IN IF Len(ks) = 1 THEN m ELSE m \o ", " \o dumps_members(f, Tail(ks))

\* the containers the store serves: the document with the bundles added to it,
\* flattened (the bundles' records merged into the document's) and restricted to a view
Members2(c, k) == IF k \in DOMAIN c.v THEN DOMAIN c.v[k].v ELSE {}
Flatten(c) ==
    LET all(k) == Members2(c, k) \cup
                    UNION {Members2(c.v["bundle"].v[b], k) : b \in Members2(c, "bundle")}
    IN PyDict([k \in {k \in {"entity", "activity"} : all(k) # {}} |->
                 PyDict([r \in all(k) |-> EmptyDict])])
Restrict(c, ks) == PyDict([k \in DOMAIN c.v \cap ks |-> c.v[k]])
ViewOf(c, vw) ==
    CASE vw = "data" -> Restrict(c, {"entity"})
      [] vw = "process" -> Restrict(c, {"activity"})
      [] vw = "responsibility" -> Restrict(c, {})
      [] OTHER -> c
ServerViews == {"data", "process", "responsibility"}
ServerFormats == {"json", "provn"}
Served(content, bundles, fl, vw) ==
    ViewOf(IF fl THEN Flatten(WithBundles(content, bundles))
           ELSE WithBundles(content, bundles), vw)

\* the JSON texts of the model, by the values they denote
Containers == {encode_JSON_container(b) : b \in Bundles}
Contents == Containers \cup {Junk}
BundleMaps == UNION {[ids -> Containers] : ids \in SUBSET BundleIdentifiers}
ServedContainers ==
    {Served(c, bs, fl, vw) : c \in Containers, bs \in BundleMaps, fl \in BOOLEAN,
                             vw \in {""} \cup ServerViews}
SubmitData(c, p, i) == PyDict([content |-> c, public |-> PyBool(p), rec_id |-> PyStr(i)])
BundleData(c, i) == PyDict([content |-> c, rec_id |-> PyStr(i)])
Meta(id, i, p) == PyDict([id |-> PyInt(id), rec_id |-> PyStr(i), public |-> PyBool(p)])
JsonValues ==
    Contents \cup ServedContainers
      \cup {SubmitData(c, p, i) : c \in Contents, p \in BOOLEAN, i \in Identifiers}
      \cup {BundleData(c, i) : c \in Contents, i \in BundleIdentifiers}
      \cup {Meta(id, i, p) : id \in DocIds, i \in Identifiers, p \in BOOLEAN}
      \cup {None, PyInt(0), PyBool(FALSE), PyBool(TRUE), EmptyList,
            PyDict([public |-> PyBool(TRUE)])}

\* json.loads: the value a text denotes; ValueError for a text that is no JSON
JsonTexts == [s \in {json_dumps(v) : v \in JsonValues} |->
                CHOOSE v \in JsonValues : json_dumps(v) = s]
IsJson(s) == s \in DOMAIN JsonTexts
json_loads(s) == JsonTexts[s]

\* ProvBundle._decode_JSON_container
IsContainer(jc) ==
    /\ jc.t = "dict"
    /\ DOMAIN jc.v \subseteq {"entity", "activity", "bundle"}
    /\ \A k \in DOMAIN jc.v : jc.v[k].t = "dict"
decode_records(jc) == [entity |-> Members2(jc, "entity"), activity |-> Members2(jc, "activity")]
decode_JSON_container(jc) ==
    ProvBundle(Members2(jc, "entity"), Members2(jc, "activity"),
               [b \in Members2(jc, "bundle") |-> decode_records(jc.v["bundle"].v[b])])

(***************************************************************************)
(* The remote store, from the HTTP surface the client consumes.  A stored  *)
(* document is [content, public, rec_id, bundles]; ids are never reused.   *)
(***************************************************************************)
\* Store: the server is the store below.  Any other answer: the server's reply
\* whatever the request was.
Store == [status |-> 0, body |-> ""]
ValidCredentials == "ApiKey user:key"
Authorized(req) ==
    /\ "Authorization" \in DOMAIN req.headers
    /\ req.headers["Authorization"] = ValidCredentials

Provn(c) == "document " \o json_dumps(c) \o " endDocument"
Route(id, fl, vw, ext) ==
    "documents/" \o ToString(id) \o (IF fl THEN "/flattened" ELSE "")
        \o (IF vw = "" THEN "" ELSE "/views/" \o vw) \o "." \o ext
Routes == DocIds \X BOOLEAN \X ({""} \cup ServerViews) \X ServerFormats
RouteTable ==
    [root \in {API_LOCATION, CustomLocation} |->
       [u \in {root \o Route(r[1], r[2], r[3], r[4]) : r \in Routes} |->
          CHOOSE r \in Routes : u = root \o Route(r[1], r[2], r[3], r[4])]]

Payload(req) ==
    IF req.data.t = "str" /\ IsJson(req.data.v) THEN json_loads(req.data.v) ELSE None
WellFormed(pl, ks) ==
    /\ pl.t = "dict"
    /\ DOMAIN pl.v = ks
    /\ IsContainer(pl.v["content"])
    /\ pl.v["rec_id"].t = "str"

Handle(st, lid, req, env, pl) ==
    LET root == api_location.v
        Answer(s, b) == [status |-> s, body |-> b, store |-> st, last_id |-> lid]
    IN
    IF env # Store THEN Answer(env.status, env.body)
    ELSE IF req.url = root \o "documents/" THEN
        IF req.method # "POST" THEN Answer(405, "")
        ELSE IF ~Authorized(req) THEN Answer(401, "")
        ELSE IF ~WellFormed(pl, {"content", "public", "rec_id"}) THEN Answer(400, "")
        ELSE LET id == lid + 1
                 doc == [content |-> pl.v["content"], public |-> pl.v["public"].v,
                         rec_id |-> pl.v["rec_id"].v, bundles |-> <<>>]
             IN [status |-> 201,
                 body |-> json_dumps(Meta(id, doc.rec_id, doc.public)),
                 store |-> [i \in DOMAIN st \cup {id} |-> IF i = id THEN doc ELSE st[i]],
                 last_id |-> id]
    ELSE IF \E id \in DocIds : req.url = root \o "documents/" \o ToString(id) \o "/" THEN
        LET id == CHOOSE i \in DocIds : req.url = root \o "documents/" \o ToString(i) \o "/"
        IN IF id \notin DOMAIN st THEN Answer(404, "")
           ELSE IF req.method = "GET" THEN
               IF ~st[id].public /\ ~Authorized(req) THEN Answer(401, "")
               ELSE Answer(200, json_dumps(Meta(id, st[id].rec_id, st[id].public)))
           ELSE IF req.method = "DELETE" THEN
               IF ~Authorized(req) THEN Answer(401, "")
               ELSE [status |-> 204, body |-> "",
                     store |-> [i \in DOMAIN st \ {id} |-> st[i]], last_id |-> lid]
           ELSE Answer(405, "")
    ELSE IF \E id \in DocIds : req.url = root \o "documents/" \o ToString(id) \o "/bundles/" THEN
        LET id == CHOOSE i \in DocIds :
                    req.url = root \o "documents/" \o ToString(i) \o "/bundles/"
        IN IF id \notin DOMAIN st THEN Answer(404, "")
           ELSE IF req.method # "POST" THEN Answer(405, "")
           ELSE IF ~Authorized(req) THEN Answer(401, "")
           ELSE IF ~WellFormed(pl, {"content", "rec_id"}) THEN Answer(400, "")
           ELSE IF pl.v["rec_id"].v \in DOMAIN st[id].bundles THEN Answer(422, "")
           ELSE LET b == st[id].bundles
                    nb == [k \in DOMAIN b \cup {pl.v["rec_id"].v} |->
                             IF k \in DOMAIN b THEN b[k] ELSE pl.v["content"]]
                IN [status |-> 201, body |-> "",
                    store |-> [st EXCEPT ![id].bundles = nb], last_id |-> lid]
    ELSE IF req.url \in DOMAIN RouteTable[root] THEN
        LET r == RouteTable[root][req.url]
            id == r[1]
        IN IF id \notin DOMAIN st THEN Answer(404, "")
           ELSE IF req.method # "GET" THEN Answer(405, "")
           ELSE IF ~st[id].public /\ ~Authorized(req) THEN Answer(401, "")
           ELSE LET c == Served(st[id].content, st[id].bundles, r[2], r[3])
                IN Answer(200, IF r[4] = "json" THEN json_dumps(c) ELSE Provn(c))
    ELSE Answer(404, "")

Serve(st, lid, req, env) == Handle(st, lid, req, env, Payload(req))

(***************************************************************************)
(* class Api.                                                              *)
(***************************************************************************)
\* Api.__init__: api_location or API_LOCATION
Api_init_location(loc) == IF Truthy(loc) THEN loc ELSE PyStr(API_LOCATION)

\* a bug: a username that was not given is left out
authorization_header_blank ==
    "ApiKey " \o (IF api_username = None THEN "" ELSE Str(api_username)) \o ":" \o Str(api_key)

\* Api._authorization_header
authorization_header == "ApiKey " \o Str(api_username) \o ":" \o Str(api_key)

\* Api.request, the headers
request_headers ==
    LET auth == Truthy(api_location) /\ Truthy(api_key)
    IN [h \in {"Accept", "Content-type"} \cup (IF auth THEN {"Authorization"} ELSE {}) |->
          IF h = "Authorization" THEN authorization_header ELSE "application/json"]

\* Api.request, the urllib2.Request it builds
BuildRequest(path, data, method) ==
    LET body == IF Truthy(data) THEN PyStr(json_dumps(data)) ELSE None
    IN [url |-> api_location.v \o path,
        data |-> body,
        headers |-> request_headers,
        method |-> IF Truthy(method) THEN method.v
                   ELSE IF body # None THEN "POST" ELSE "GET"]

\* urllib2.urlopen: one exchange with the server
Exchange(w, req, a) ==
    [store |-> a.store, last_id |-> a.last_id, sent |-> Append(w.sent, req),
     received |-> [status |-> a.status, body |-> a.body]]
\* a bug: a request that failed is sent again
urlopen_retry(w, req, env) ==
    IF Serve(w.store, w.last_id, req, env).status \in 200 .. 299
    THEN Exchange(w, req, Serve(w.store, w.last_id, req, env))
    ELSE Exchange([w EXCEPT !.sent = Append(w.sent, req)], req,
                  Serve(w.store, w.last_id, req, env))
urlopen(w, req, env) == Exchange(w, req, Serve(w.store, w.last_id, req, env))

\* a bug: every status without an error kind of its own becomes a plain ApiError
request_result_generic(resp, raw) ==
    IF resp.status \notin 200 .. 299 THEN
        CASE resp.status = 401 -> Raise("ApiUnauthorizedError", 0)
          [] resp.status = 400 -> Raise("ApiBadRequestError", 0)
          [] resp.status = 404 -> Raise("ApiNotFoundError", 0)
          [] resp.status = 422 -> Raise("ApiNotFoundError", 0)
          [] OTHER -> Raise("ApiError", 0)
    ELSE IF resp.body # "" \/ raw THEN
        IF raw THEN Return(PyStr(resp.body))
        ELSE IF IsJson(resp.body) THEN Return(json_loads(resp.body))
        ELSE Raise("ValueError", 0)
    ELSE Return(PyBool(TRUE))

\* a bug: "if response_string:", so that an empty body is True even when raw
request_result_falsy(resp, raw) ==
    IF resp.status \notin 200 .. 299 THEN
        CASE resp.status = 401 -> Raise("ApiUnauthorizedError", 0)
          [] resp.status = 400 -> Raise("ApiBadRequestError", 0)
          [] resp.status = 404 -> Raise("ApiNotFoundError", 0)
          [] resp.status = 422 -> Raise("ApiNotFoundError", 0)
          [] OTHER -> Raise("HTTPError", resp.status)
    ELSE IF resp.body # "" THEN
        IF raw THEN Return(PyStr(resp.body))
        ELSE IF IsJson(resp.body) THEN Return(json_loads(resp.body))
        ELSE Raise("ValueError", 0)
    ELSE Return(PyBool(TRUE))

\* Api.request, from the response on
request_result(resp, raw) ==
    IF resp.status \notin 200 .. 299 THEN
        CASE resp.status = 401 -> Raise("ApiUnauthorizedError", 0)
          [] resp.status = 400 -> Raise("ApiBadRequestError", 0)
          [] resp.status = 404 -> Raise("ApiNotFoundError", 0)
          [] resp.status = 422 -> Raise("ApiNotFoundError", 0)
          [] OTHER -> Raise("HTTPError", resp.status)
    ELSE IF resp.body # "" \/ raw THEN
        IF raw THEN Return(PyStr(resp.body))
        ELSE IF IsJson(resp.body) THEN Return(json_loads(resp.body))
        ELSE Raise("ValueError", 0)
    ELSE Return(PyBool(TRUE))

\* Api.request
request_return(w, raw) == [w |-> w, out |-> request_result(w.received, raw)]
request(w, path, data, method, raw, env) ==
    IF Truthy(data) /\ dumps_raises(data) THEN [w |-> w, out |-> Raise("TypeError", 0)]
    ELSE request_return(urlopen(w, BuildRequest(path, data, method), env), raw)

\* Api.submit_document
submit_document_return(r) ==
    [w |-> r.w,
     out |-> IF r.out.kind = "raise" THEN r.out
             ELSE IF r.out.v.t # "dict" THEN Raise("TypeError", 0)
             ELSE IF "id" \notin DOMAIN r.out.v.v THEN Raise("KeyError", 0)
             ELSE Return(r.out.v.v["id"])]
submit_document(w, prov_document, identifier, public, env) ==
    submit_document_return(
        request(w, "documents/",
                PyDict([content |-> prov_document, public |-> public,
                        rec_id |-> identifier]),
                None, FALSE, env))

\* a bug: every view that is given is put into the path
get_document_path_anyview(doc_id, format, flattened, view) ==
    "documents/" \o ToString(doc_id) \o (IF Truthy(flattened) THEN "/flattened" ELSE "")
        \o (IF view # None THEN "/views/" \o Str(view) ELSE "")
        \o "." \o (IF format # None THEN Str(format) ELSE "json")

\* Api.get_document, the path it asks for
get_document_path(doc_id, format, flattened, view) ==
    LET extension == IF format # None THEN format ELSE PyStr("json")
        vw == IF view \in {PyStr("data"), PyStr("process"), PyStr("responsibility")}
              THEN "/views/" \o Str(view) ELSE ""
    IN "documents/" \o ToString(doc_id) \o (IF Truthy(flattened) THEN "/flattened" ELSE "")
         \o vw \o "." \o Str(extension)

\* a bug: the body is never decoded
get_document_result_raw(out, format) == out

\* a bug: format='json' is decoded like an unset format
get_document_result_json(out, format) ==
    IF out.kind = "raise" THEN out
    ELSE IF format = None \/ format = PyStr("json") THEN
        IF out.v.t # "str" THEN Raise("TypeError", 0)
        ELSE IF ~IsJson(out.v.v) THEN Raise("ValueError", 0)
        ELSE IF ~IsContainer(json_loads(out.v.v)) THEN Raise("KeyError", 0)
        ELSE Return(decode_JSON_container(json_loads(out.v.v)))
    ELSE out

\* Api.get_document, from the response on
get_document_result(out, format) ==
    IF out.kind = "raise" THEN out
    ELSE IF format = None THEN
        IF out.v.t # "str" THEN Raise("TypeError", 0)
        ELSE IF ~IsJson(out.v.v) THEN Raise("ValueError", 0)
        ELSE IF ~IsContainer(json_loads(out.v.v)) THEN Raise("KeyError", 0)
        ELSE Return(decode_JSON_container(json_loads(out.v.v)))
    ELSE out

\* Api.get_document
get_document_return(r, format) == [w |-> r.w, out |-> get_document_result(r.out, format)]
get_document(w, doc_id, format, flattened, view, env) ==
    get_document_return(
        request(w, get_document_path(doc_id, format, flattened, view),
                None, None, TRUE, env),
        format)

\* Api.get_document_meta
get_document_meta(w, doc_id, env) ==
    request(w, "documents/" \o ToString(doc_id) \o "/", None, None, FALSE, env)

\* a bug: the failure of the request is swallowed
return_True_always(r) == [w |-> r.w, out |-> Return(PyBool(TRUE))]

\* a method that ends "return True"
return_True(r) ==
    [w |-> r.w, out |-> IF r.out.kind = "raise" THEN r.out ELSE Return(PyBool(TRUE))]

\* Api.add_bundle
add_bundle(w, doc_id, prov_document, identifier, env) ==
    return_True(
        request(w, "documents/" \o ToString(doc_id) \o "/bundles/",
                PyDict([content |-> prov_document, rec_id |-> identifier]),
                None, FALSE, env))

\* a bug: the method is left out, and the request is a GET
delete_document_get(w, doc_id, env) ==
    return_True(
        request(w, "documents/" \o ToString(doc_id) \o "/", None, None, FALSE, env))

\* Api.delete_document
delete_document(w, doc_id, env) ==
    return_True(
        request(w, "documents/" \o ToString(doc_id) \o "/", None,
                PyStr("DELETE"), FALSE, env))

(***************************************************************************)
(* The state machine: one action per call of a public method.              *)
(***************************************************************************)
NoResponse == [status |-> 0, body |-> ""]
Args == [doc_id |-> 0, format |-> None, flattened |-> None, view |-> None,
         document |-> None, identifier |-> None, public |-> None,
         path |-> "", data |-> None, method |-> None, raw |-> FALSE]
World == [store |-> store, last_id |-> last_id, sent |-> <<>>, received |-> NoResponse]

Init ==
    /\ \E loc \in Locations : api_location = Api_init_location(loc)
    /\ api_username \in Usernames
    /\ api_key \in Keys
    /\ store = <<>>
    /\ last_id = 0
    /\ pc = "idle"
    /\ call = [op |-> "init", a |-> Args]
    /\ sent = <<>>
    /\ received = NoResponse
    /\ result = Return(None)
    /\ deletedSince = {}
    /\ submitted = <<>>

\* the call's effects; the store stays within the bounds
Finish(op, a, r) ==
    /\ r.w.last_id <= MaxDocs
    /\ Cardinality(DOMAIN r.w.store) <= MaxLive
    /\ pc' = "returned"
    /\ call' = [op |-> op, a |-> a]
    /\ sent' = r.w.sent
    /\ received' = r.w.received
    /\ result' = r.out
    /\ store' = r.w.store
    /\ last_id' = r.w.last_id
    /\ submitted' = [i \in DOMAIN r.w.store |->
                       IF i \in DOMAIN store THEN submitted[i] ELSE a.document]
    /\ UNCHANGED <<api_location, api_username, api_key>>

SubmitDocument(env) ==
    /\ pc = "idle"
    /\ \E d \in Bundles \cup {Junk, Opaque}, i \in Identifiers, p \in BOOLEAN :
        \E r \in {submit_document(World, d, PyStr(i), PyBool(p), env)} :
           /\ Finish("submit_document",
                     [Args EXCEPT !.document = d, !.identifier = PyStr(i),
                                  !.public = PyBool(p)], r)
           /\ deletedSince' = IF r.out.kind = "return" THEN {} ELSE deletedSince

GetDocument(env) ==
    /\ pc = "idle"
    /\ \E id \in DocIds, f \in Formats, fl \in BOOLEAN, vw \in Views :
        /\ \E r \in {get_document(World, id, f, PyBool(fl), vw, env)} :
              Finish("get_document",
                     [Args EXCEPT !.doc_id = id, !.format = f, !.flattened = PyBool(fl),
                                  !.view = vw], r)
        /\ UNCHANGED deletedSince

GetDocumentMeta(env) ==
    /\ pc = "idle"
    /\ \E id \in DocIds :
        /\ \E r \in {get_document_meta(World, id, env)} :
              Finish("get_document_meta", [Args EXCEPT !.doc_id = id], r)
        /\ UNCHANGED deletedSince

AddBundle(env) ==
    /\ pc = "idle"
    /\ \E id \in DocIds, d \in BundleInputs, i \in BundleIdentifiers :
        /\ \E r \in {add_bundle(World, id, d, PyStr(i), env)} :
              Finish("add_bundle",
                     [Args EXCEPT !.doc_id = id, !.document = d, !.identifier = PyStr(i)],
                     r)
        /\ UNCHANGED deletedSince

DeleteDocument(env) ==
    /\ pc = "idle"
    /\ \E id \in DocIds :
        \E r \in {delete_document(World, id, env)} :
           /\ Finish("delete_document", [Args EXCEPT !.doc_id = id], r)
           /\ deletedSince' = IF r.out = Return(PyBool(TRUE))
                              THEN deletedSince \cup {id} ELSE deletedSince

\* a direct call of Api.request
RequestPaths == {"documents/", "documents/1/"}
RequestData == {None, EmptyDict, EmptyList, PyInt(0), PyBool(FALSE),
                PyDict([public |-> PyBool(TRUE)])}
RequestMethods == {None, PyStr("DELETE")}
Request(env) ==
    /\ pc = "idle"
    /\ \E path \in RequestPaths, data \in RequestData, method \in RequestMethods,
       raw \in BOOLEAN :
        /\ \E r \in {request(World, path, data, method, raw, env)} :
              Finish("request",
                     [Args EXCEPT !.path = path, !.data = data, !.method = method,
                                  !.raw = raw], r)
        /\ UNCHANGED deletedSince

\* the caller goes on, dropping the outcome of the call
Resume ==
    /\ pc = "returned"
    /\ pc' = "idle"
    /\ call' = [op |-> "init", a |-> Args]
    /\ sent' = <<>>
    /\ received' = NoResponse
    /\ result' = Return(None)
    /\ UNCHANGED <<api_location, api_username, api_key, store, last_id, deletedSince,
                   submitted>>

\* the client against the store
Next ==
    \/ SubmitDocument(Store)
    \/ GetDocument(Store)
    \/ GetDocumentMeta(Store)
    \/ AddBundle(Store)
    \/ DeleteDocument(Store)
    \/ Request(Store)
    \/ Resume

Spec == Init /\ [][Next]_vars

\* the client against a server that may answer anything
Bodies == {"", json_dumps(encode_JSON_container(ProvBundle({"e1"}, {}, <<>>))),
           json_dumps(Meta(1, "d1", TRUE)), Provn(EmptyDict)}
Answers == {[status |-> 200, body |-> b] : b \in Bodies}
             \cup {[status |-> s, body |-> ""] :
                     s \in {204, 304, 400, 401, 403, 404, 422, 500}}
NextWire ==
    \/ \E env \in Answers :
          \/ SubmitDocument(env)
          \/ GetDocument(env)
          \/ GetDocumentMeta(env)
          \/ AddBundle(env)
          \/ DeleteDocument(env)
          \/ Request(env)
    \/ Resume

SpecWire == Init /\ [][NextWire]_vars

(***************************************************************************)
(* The claims.                                                             *)
(***************************************************************************)
Returned == pc = "returned"
Success == received.status \in 200 .. 299
ValidViews == {PyStr("data"), PyStr("process"), PyStr("responsibility")}

\* C1: a response whose status is not 2xx raises ApiUnauthorizedError for 401,
\* ApiBadRequestError for 400, ApiNotFoundError for 404 and 422, and for every other
\* status the HTTPError of the transport itself, with its status: never an Api error
\* kind, never a return value.
C1_StatusToError ==
    (Returned /\ Len(sent) > 0 /\ ~Success) =>
        CASE received.status = 401 -> result = Raise("ApiUnauthorizedError", 0)
          [] received.status = 400 -> result = Raise("ApiBadRequestError", 0)
          [] received.status \in {404, 422} -> result = Raise("ApiNotFoundError", 0)
          [] OTHER -> result = Raise("HTTPError", received.status)
C1_Witness ==
    /\ Returned
    /\ call.op = "request"
    /\ received.status = 500
    /\ result = Raise("HTTPError", 500)

\* C3: get_document asks for documents/{id}[/flattened][/views/{view}].{ext}: ext is
\* json for an unset format and the format otherwise, /flattened is there exactly when
\* flattened is true, /views/{view} only for the views data, process and
\* responsibility; with any other view the request, the response and the outcome are
\* those of the same call with view=None.
C3_DocumentPath ==
    (Returned /\ call.op = "get_document") =>
        /\ Len(sent) = 1
        /\ sent[1].url =
             api_location.v \o "documents/" \o ToString(call.a.doc_id)
               \o (IF call.a.flattened = PyBool(TRUE) THEN "/flattened" ELSE "")
               \o (IF call.a.view \in ValidViews THEN "/views/" \o call.a.view.v ELSE "")
               \o "." \o (IF call.a.format = None THEN "json" ELSE call.a.format.v)
        /\ call.a.view \notin ValidViews =>
             \E r \in {get_document(World, call.a.doc_id, call.a.format, call.a.flattened,
                                    None, Store)} :
                 /\ r.w.sent = sent
                 /\ r.w.received = received
                 /\ r.out = result
C3_Witness ==
    /\ Returned
    /\ call.op = "get_document"
    /\ call.a.view = PyStr("other")
    /\ call.a.flattened = PyBool(TRUE)
    /\ call.a.format = PyStr("provn")
    /\ result.kind = "return"

\* C9: on a 2xx response Api.request returns True for an empty body when raw is
\* false, the body itself as a string whenever raw is true (the empty string for an
\* empty body), and the value the JSON text denotes for a body that is not empty when
\* raw is false.
C9_RequestReturn ==
    (Returned /\ call.op = "request" /\ Success) =>
        /\ (received.body = "" /\ ~call.a.raw) => result = Return(PyBool(TRUE))
        /\ call.a.raw => result = Return(PyStr(received.body))
        /\ (received.body # "" /\ ~call.a.raw /\ IsJson(received.body)) =>
             /\ result.kind = "return"
             /\ result.v \in JsonValues
             /\ json_dumps(result.v) = received.body
C9_Witness ==
    /\ Returned
    /\ call.op = "request"
    /\ call.a.raw
    /\ received = [status |-> 200, body |-> ""]
    /\ result = Return(PyStr(""))

\* C10 (as claimed): whenever the data given to Api.request is not None, an empty
\* mapping, an empty sequence, 0 and false included, its JSON text is the body of the
\* request and the method is POST unless one is given; without data there is no body
\* and the method is GET unless one is given; a method that is given is used as it is.
C10_BodyWheneverDataGiven ==
    (Returned /\ call.op = "request") =>
        /\ call.a.data # None => sent[1].data = PyStr(json_dumps(call.a.data))
        /\ call.a.data = None => sent[1].data = None
        /\ call.a.method # None => sent[1].method = call.a.method.v
        /\ call.a.method = None =>
             sent[1].method = IF call.a.data # None THEN "POST" ELSE "GET"

\* C2: against the store, get_document (format unset, not flattened, no view) of the
\* id that submit_document returned for D returns a document equal to D, as long as
\* the document is stored and no bundle was added to it.
C2_SubmitThenGet ==
    (/\ Returned
     /\ call.op = "get_document"
     /\ call.a.format = None
     /\ call.a.flattened = PyBool(FALSE)
     /\ call.a.view = None
     /\ call.a.doc_id \in DOMAIN store
     /\ DOMAIN store[call.a.doc_id].bundles = {})
        => result = Return(submitted[call.a.doc_id])
C2_Witness ==
    /\ Returned
    /\ call.op = "get_document"
    /\ call.a.format = None
    /\ call.a.flattened = PyBool(FALSE)
    /\ call.a.view = None
    /\ call.a.doc_id \in DOMAIN store
    /\ submitted[call.a.doc_id] = ProvBundle({"e1"}, {"a1"}, <<>>)
    /\ result = Return(ProvBundle({"e1"}, {"a1"}, <<>>))

\* C4 (as claimed): on a 2xx response get_document with a format returns the body
\* itself as a string, and get_document with the format unset returns a decoded
\* document, whatever the body, an empty one included.
ContainerTexts == {json_dumps(c) : c \in Containers \cup ServedContainers}
C4_DecodedWhateverTheBody ==
    (Returned /\ call.op = "get_document" /\ Success) =>
        IF call.a.format # None THEN result = Return(PyStr(received.body))
        ELSE result.kind = "return" /\ result.v.t = "ProvBundle"

\* C4 (amended): on a 2xx response get_document with a format returns the body itself
\* as a string, an empty body included; with the format unset it never returns a
\* string: it returns the decoded document when the body is the JSON text of a
\* document, and raises ValueError when the body is empty or is no JSON.
C4_DecodedWhenJson ==
    (Returned /\ call.op = "get_document" /\ Success) =>
        IF call.a.format # None THEN result = Return(PyStr(received.body))
        ELSE /\ result.kind = "return" => result.v.t = "ProvBundle"
             /\ received.body \in ContainerTexts =>
                  /\ result.kind = "return"
                  /\ json_dumps(encode_JSON_container(result.v)) = received.body
             /\ (received.body = "" \/ ~IsJson(received.body)) =>
                  result = Raise("ValueError", 0)
C4_Witness ==
    /\ Returned
    /\ call.op = "get_document"
    /\ call.a.format = None
    /\ received = [status |-> 200, body |-> ""]
    /\ result = Raise("ValueError", 0)

\* C5: once delete_document(id) has returned True, every get_document(id) and
\* get_document_meta(id) raises ApiNotFoundError, until a document is submitted again.
C5_DeletedIsNotFound ==
    (/\ Returned
     /\ call.op \in {"get_document", "get_document_meta"}
     /\ call.a.doc_id \in deletedSince)
        => result = Raise("ApiNotFoundError", 0)
C5_Witness ==
    /\ Returned
    /\ call.op = "get_document"
    /\ call.a.doc_id \in deletedSince
    /\ last_id >= call.a.doc_id
    /\ result = Raise("ApiNotFoundError", 0)

\* C6: add_bundle of a bundle on an id the store does not hold raises ApiNotFoundError and leaves
\* the store as it was; add_bundle returns True only after one POST to
\* documents/{doc_id}/bundles/ that the server answered with a 2xx status.
C6_AddBundle ==
    /\ [][(/\ pc = "idle"
           /\ pc' = "returned"
           /\ call'.op = "add_bundle"
           /\ ~dumps_raises(call'.a.document)
           /\ call'.a.doc_id \notin DOMAIN store)
             => (result' = Raise("ApiNotFoundError", 0) /\ store' = store)]_vars
    /\ []((Returned /\ call.op = "add_bundle" /\ result.kind = "return") =>
            /\ result = Return(PyBool(TRUE))
            /\ Len(sent) = 1
            /\ sent[1].method = "POST"
            /\ sent[1].url = api_location.v \o "documents/" \o ToString(call.a.doc_id)
                               \o "/bundles/"
            /\ Success)
C6_Witness ==
    /\ Returned
    /\ call.op = "add_bundle"
    /\ call.a.doc_id \notin DOMAIN store
    /\ store # <<>>
    /\ result = Raise("ApiNotFoundError", 0)

\* C7: every request carries Authorization: ApiKey {username}:{key} when a key is
\* configured (the base URL always is), with the username as Python writes it, also
\* when it is empty or None; without a key it carries no Authorization header.
C7_AuthorizationHeader ==
    Returned =>
        /\ Truthy(api_location)
        /\ \A i \in 1 .. Len(sent) :
             IF api_key \in {None, PyStr("")}
             THEN "Authorization" \notin DOMAIN sent[i].headers
             ELSE /\ "Authorization" \in DOMAIN sent[i].headers
                  /\ sent[i].headers["Authorization"] =
                       "ApiKey " \o (IF api_username = None THEN "None" ELSE api_username.v)
                         \o ":" \o api_key.v
C7_Witness ==
    /\ Returned
    /\ api_username = None
    /\ api_key = PyStr("key")
    /\ Len(sent) = 1
    /\ sent[1].headers["Authorization"] = "ApiKey None:key"

\* C8 (as claimed): every call of a method sends exactly one HTTP request, whether it
\* returns or raises.
C8_ExactlyOneRequest == Returned => Len(sent) = 1

\* C8 (amended): every call of a method hands the transport exactly one request, whether
\* it returns or raises, and never a second one after a failure; except that a call
\* whose payload json.dumps cannot serialize raises TypeError before any request: it
\* sends none.
C8_OneRequestOnceBuilt ==
    Returned =>
        IF Truthy(call.a.document) /\ dumps_raises(call.a.document)
        THEN sent = <<>> /\ result = Raise("TypeError", 0)
        ELSE Len(sent) = 1
C8_Witness ==
    /\ Returned
    /\ call.op = "submit_document"
    /\ call.a.document \in Bundles
    /\ result = Raise("HTTPError", 500)
    /\ Len(sent) = 1

====
